---- MODULE Spec2Model ----
(***************************************************************************)
(* Two-hand note partitioning (separate.py): the greedy engine             *)
(* assign_notes_to_hands, the dynamic program                              *)
(* dynamic_programming_assign_hands and the cost function calculate_cost.  *)
(*                                                                         *)
(* A note is the tuple <<pitch, start, end, velocity>>, as in the source   *)
(* (Python n[0..3] is n[1..4] here).  Note indices in dp, hand_assignment  *)
(* and final_hand_assignments are 0-based as in the source; notes[i + 1]   *)
(* is Python's notes[i].  Costs are kept in tenths (0.8 is 8, 0.2 is 2,    *)
(* 2.0 is 20, a squared span s is 10 * s), so every cost is an integer and *)
(* "a < 0.9 * b" is "10 * a < 9 * b".  Times are whole seconds.            *)
(***************************************************************************)
EXTENDS Integers, Sequences, FiniteSets, Bags, TLC

\* ---- bounds of the model ------------------------------------------------
MaxNotes == 3
MaxTime == 2
MaxHeldNotes == 4

\* ---- input domains ------------------------------------------------------
Pitches == {55, 60, 61, 72}
Velocities == {1, 100}
MaxFingersSet == {1, 5}
AllowedSpreadSet == {8}

\* well-formed notes: end > start
NoteDomain == { n \in Pitches \X (0..MaxTime) \X (0..MaxTime) \X Velocities : n[3] > n[2] }

\* notes as a caller may hand them over, malformed ones included
RawPitches == {60, 128}
RawNoteDomain == RawPitches \X (0..1) \X (0..1) \X {100}

\* held notes: loud notes starting at 0 or 1 that all sound until 2
HeldNoteDomain == { <<p, s, 2, 100>> : p \in Pitches, s \in {0, 1} }

SeqsUpTo(S, n) == UNION { [1..k -> S] : k \in 0..n }

\* ---- arithmetic helpers -------------------------------------------------
Inf == -1

Lt(a, b) == IF a = Inf THEN FALSE ELSE IF b = Inf THEN TRUE ELSE a < b

Le(a, b) == IF b = Inf THEN TRUE ELSE IF a = Inf THEN FALSE ELSE a <= b

Plus(a, b) == IF a = Inf \/ b = Inf THEN Inf ELSE a + b

MinC(a, b) == IF Lt(b, a) THEN b ELSE a

Min2(a, b) == IF b < a THEN b ELSE a

Max2(a, b) == IF b > a THEN b ELSE a

MinOf(S) == CHOOSE m \in S : \A x \in S : m <= x

MaxOf(S) == CHOOSE m \in S : \A x \in S : m >= x

Range(s) == { s[k] : k \in 1..Len(s) }

PitchesOf(s) == [k \in 1..Len(s) |-> s[k][1]]

\* ---- notes.sort(key=lambda x: (x[1], x[0])) ------------------------------
\* the sort key without its second component
KeyLessOnsetOnly(a, b) == a[2] < b[2]

KeyLess(a, b) == a[2] < b[2] \/ (a[2] = b[2] /\ a[1] < b[1])

RECURSIVE InsertNote(_, _)
InsertNote(s, x) ==
  IF s = <<>> THEN <<x>>
  ELSE IF KeyLess(x, s[Len(s)]) THEN Append(InsertNote(SubSeq(s, 1, Len(s) - 1), x), s[Len(s)])
  ELSE Append(s, x)

RECURSIVE SortNotes(_)
SortNotes(s) ==
  IF s = <<>> THEN <<>>
  ELSE InsertNote(SortNotes(SubSeq(s, 1, Len(s) - 1)), s[Len(s)])

\* ---- program state ------------------------------------------------------
VARIABLES
  midi_data,              \* the notes of the PrettyMIDI object, in file order
  max_fingers,            \* parameter
  allowed_spread,         \* parameter
  pc,                     \* position in the script: greedy engine, then DP engine
  notes,                  \* the extracted, sorted note list of the running engine
  gi,                     \* greedy: number of notes already processed
  left_hand,              \* greedy output
  right_hand,             \* greedy output
  active_notes,           \* greedy: active_notes['left'], active_notes['right']
  pruned,                 \* greedy: active_notes[hand] right after line 41, last note
  costs,                  \* greedy: costs[hand] of the last note processed
  greedy_total,           \* sum of costs[chosen hand] over the notes processed
  dp,                     \* DP table, keys -1..n-1
  hand_assignment,        \* DP: (i, hand) -> prev_hand
  di,                     \* DP: next index of the forward loop
  dp_active,              \* DP: assigned_hand_notes of calculate_cost, last note, per hand
  dp_terms,               \* DP: the locals of calculate_cost, last note, per hand
  cost_to_assign_hand,    \* DP: the value calculate_cost returned, last note, per hand
  bi,                     \* DP: next index of the backtracking loop
  final_hand,             \* DP
  final_cost,             \* DP
  final_hand_assignments, \* DP: i -> hand
  left_hand_notes,        \* DP output
  right_hand_notes        \* DP output

vars == <<midi_data, max_fingers, allowed_spread, pc, notes, gi, left_hand, right_hand,
          active_notes, pruned, costs, greedy_total, dp, hand_assignment, di, dp_active,
          dp_terms, cost_to_assign_hand, bi, final_hand, final_cost, final_hand_assignments,
          left_hand_notes, right_hand_notes>>

greedyVars == <<gi, left_hand, right_hand, active_notes, pruned, costs, greedy_total>>

dpVars == <<dp, hand_assignment, di, dp_active, dp_terms, cost_to_assign_hand, bi, final_hand, final_cost,
            final_hand_assignments, left_hand_notes, right_hand_notes>>

paramVars == <<midi_data, max_fingers, allowed_spread>>

HandNames == {"left", "right"}

NoHand == "none"

EmptyMap == [k \in {} |-> 0]

\* ---- greedy engine: assign_notes_to_hands --------------------------------
\* line 41: [n for n in active_notes[hand] if n[3] > start]; n[3] is the velocity
PruneActive(active, start) == SelectSeq(active, LAMBDA n : n[4] > start)

\* lines 42-54
HandState(active, pitch) ==
  LET current_pitches == PitchesOf(active)
      finger_positions == { p % 12 : p \in Range(current_pitches) }
      min_pitch == IF current_pitches # <<>> THEN MinOf(Range(current_pitches)) ELSE pitch
      max_pitch == IF current_pitches # <<>> THEN MaxOf(Range(current_pitches)) ELSE pitch
  IN [fingers_used |-> Cardinality(finger_positions),
      spread |-> IF current_pitches # <<>> THEN max_pitch - min_pitch ELSE 0,
      min_pitch |-> min_pitch,
      max_pitch |-> max_pitch]

\* lines 59-74; current_pitches is the list left over from the last pass of the
\* loop of lines 40-54, whichever hand the cost is computed for
GreedyCost(hand, state, current_pitches, pitch, mf, spread) ==
  LET new_min == IF current_pitches # <<>> THEN Min2(state.min_pitch, pitch) ELSE pitch
      new_max == IF current_pitches # <<>> THEN Max2(state.max_pitch, pitch) ELSE pitch
      new_span == new_max - new_min
      over == Max2(0, new_span - spread)
      span_cost == 10 * over * over
      finger_cost == IF state.fingers_used >= mf
                        /\ (pitch % 12) \notin { p % 12 : p \in Range(current_pitches) }
                     THEN 20 ELSE 0
      register_cost == IF (hand = "left" /\ pitch >= 60) \/ (hand = "right" /\ pitch < 60)
                       THEN 8 ELSE 0
      density_cost == 2 * Len(current_pitches)
  IN span_cost + finger_cost + register_cost + density_cost

\* the near-tie branch sending the note to Right on equal counts too
GreedyChoiceTieRight(cost_left, cost_right, n_left, n_right) ==
  IF 10 * cost_left < 9 * cost_right THEN "left"
  ELSE IF 10 * cost_right < 9 * cost_left THEN "right"
  ELSE IF n_left >= n_right THEN "right"
  ELSE "left"

\* lines 77-90: the hand the note goes to
GreedyChoice(cost_left, cost_right, n_left, n_right) ==
  IF 10 * cost_left < 9 * cost_right THEN "left"
  ELSE IF 10 * cost_right < 9 * cost_left THEN "right"
  ELSE IF n_left > n_right THEN "right"
  ELSE "left"

\* lines 22-33
GreedyExtract ==
  /\ pc = "greedy_extract"
  /\ notes' = SortNotes(midi_data)
  /\ left_hand' = <<>>
  /\ right_hand' = <<>>
  /\ active_notes' = [left |-> <<>>, right |-> <<>>]
  /\ gi' = 0
  /\ pc' = "greedy_loop"
  /\ UNCHANGED <<paramVars, pruned, costs, greedy_total, dpVars>>

\* lines 35-90: one pass of the loop body
GreedyStep ==
  /\ pc = "greedy_loop"
  /\ gi < Len(notes)
  /\ LET note == notes[gi + 1]
         pitch == note[1]
         start == note[2]
         act == [h \in HandNames |-> PruneActive(active_notes[h], start)]
         hand_states == [h \in HandNames |-> HandState(act[h], pitch)]
         current_pitches == PitchesOf(act["right"])
         c == [h \in HandNames |->
                 GreedyCost(h, hand_states[h], current_pitches, pitch, max_fingers, allowed_spread)]
         hand == GreedyChoice(c["left"], c["right"], Len(left_hand), Len(right_hand))
     IN /\ pruned' = act
        /\ costs' = c
        /\ left_hand' = IF hand = "left" THEN Append(left_hand, note) ELSE left_hand
        /\ right_hand' = IF hand = "right" THEN Append(right_hand, note) ELSE right_hand
        /\ active_notes' = [act EXCEPT ![hand] = Append(act[hand], note)]
        /\ greedy_total' = greedy_total + c[hand]
  /\ gi' = gi + 1
  /\ UNCHANGED <<paramVars, pc, notes, dpVars>>

\* line 92
GreedyReturn ==
  /\ pc = "greedy_loop"
  /\ gi = Len(notes)
  /\ pc' = "dp_extract"
  /\ UNCHANGED <<paramVars, notes, greedyVars, dpVars>>

\* ---- cost function: calculate_cost --------------------------------------
KeyBound(current_assignments) ==
  IF DOMAIN current_assignments = {} THEN 0
  ELSE 1 + MaxOf({ k[1] : k \in DOMAIN current_assignments })

\* lines 184-196: assigned_hand_notes, over the keys (n_idx, hand) with n_idx < k
RECURSIVE AssignedHandNotes(_, _, _, _, _)
AssignedHandNotes(k, hand, current_assignments, previous_notes, start) ==
  IF k = 0 THEN <<>>
  ELSE LET rest == AssignedHandNotes(k - 1, hand, current_assignments, previous_notes, start)
           n_idx == k - 1
       IN IF n_idx >= Len(previous_notes) THEN rest
          ELSE IF <<n_idx, hand>> \in DOMAIN current_assignments
                  /\ previous_notes[n_idx + 1][3] > start
               THEN Append(rest, previous_notes[n_idx + 1])
               ELSE rest

\* the span penalty without the square
SpanCostLinear(new_span, spread) == 10 * Max2(0, new_span - spread)

\* line 214
SpanCost(new_span, spread) ==
  LET over == Max2(0, new_span - spread) IN 10 * over * over

\* lines 215-216
FingerCost(fingers_used, finger_positions, pitch, mf) ==
  IF fingers_used >= mf /\ (pitch % 12) \notin { p % 12 : p \in finger_positions }
  THEN 20 ELSE 0

\* middle C itself counted as the left hand's register
RegisterCostAbove(hand, pitch) ==
  IF (hand = "left" /\ pitch > 60) \/ (hand = "right" /\ pitch <= 60) THEN 8 ELSE 0

\* line 217
RegisterCost(hand, pitch) ==
  IF (hand = "left" /\ pitch >= 60) \/ (hand = "right" /\ pitch < 60) THEN 8 ELSE 0

\* line 218
DensityCost(current_pitches) == 2 * Len(current_pitches)

\* lines 182-218: the locals of calculate_cost
CostTerms(note, hand, current_assignments, previous_notes, mf, spread) ==
  LET pitch == note[1]
      start == note[2]
      assigned_hand_notes ==
        AssignedHandNotes(KeyBound(current_assignments), hand, current_assignments,
                          previous_notes, start)
      current_pitches == PitchesOf(assigned_hand_notes)
      finger_positions == { p % 12 : p \in Range(current_pitches) }
      min_pitch == IF current_pitches # <<>> THEN MinOf(Range(current_pitches)) ELSE pitch
      max_pitch == IF current_pitches # <<>> THEN MaxOf(Range(current_pitches)) ELSE pitch
      fingers_used == Cardinality(finger_positions)
      new_min == IF current_pitches # <<>> THEN Min2(min_pitch, pitch) ELSE pitch
      new_max == IF current_pitches # <<>> THEN Max2(max_pitch, pitch) ELSE pitch
      new_span == new_max - new_min
  IN [assigned_hand_notes |-> assigned_hand_notes,
      new_span |-> new_span,
      span_cost |-> SpanCost(new_span, spread),
      finger_cost |-> FingerCost(fingers_used, finger_positions, pitch, mf),
      register_cost |-> RegisterCost(hand, pitch),
      density_cost |-> DensityCost(current_pitches)]

\* line 220
SumTerms(t) == t.span_cost + t.finger_cost + t.register_cost + t.density_cost

calculate_cost(note, hand, current_assignments, previous_notes, mf, spread) ==
  SumTerms(CostTerms(note, hand, current_assignments, previous_notes, mf, spread))

\* ---- DP engine: dynamic_programming_assign_hands --------------------------
\* the engine without its check for an empty note list
EarlyReturnNever(n_notes) == FALSE

\* line 116
EarlyReturn(n_notes) == n_notes = 0

\* lines 133-140 for one (i, hand): <<dp[i][hand], hand_assignment[i, hand]>>,
\* NoHand when no key is stored
Relax(dp_prev, cost) ==
  LET t1 == Plus(dp_prev["left"], cost)
      v1 == IF Lt(t1, Inf) THEN <<t1, "left">> ELSE <<Inf, NoHand>>
      t2 == Plus(dp_prev["right"], cost)
  IN IF Lt(t2, v1[1]) THEN <<t2, "right">> ELSE v1

SetKey(f, k, v) == [x \in DOMAIN f \cup {k} |-> IF x = k THEN v ELSE f[x]]

StoreHand(ha, i, hand, r) == IF r[2] = NoHand THEN ha ELSE SetKey(ha, <<i, hand>>, r[2])

\* lines 108-124
DPExtract ==
  /\ pc = "dp_extract"
  /\ notes' = SortNotes(midi_data)
  /\ IF EarlyReturn(Len(SortNotes(midi_data)))
     THEN /\ left_hand_notes' = <<>>
          /\ right_hand_notes' = <<>>
          /\ pc' = "done"
          /\ UNCHANGED <<dp, hand_assignment, di>>
     ELSE /\ dp' = SetKey(EmptyMap, -1, [left |-> 0, right |-> 0])
          /\ hand_assignment' = EmptyMap
          /\ di' = 0
          /\ pc' = "dp_forward"
          /\ UNCHANGED <<left_hand_notes, right_hand_notes>>
  /\ UNCHANGED <<paramVars, greedyVars, dp_active, dp_terms, cost_to_assign_hand, bi,
                 final_hand, final_cost, final_hand_assignments>>

\* lines 126-140: one pass of the outer loop
DPForward ==
  /\ pc = "dp_forward"
  /\ di < Len(notes)
  /\ LET current_note == notes[di + 1]
         previous_notes == SubSeq(notes, 1, di)
         tl == CostTerms(current_note, "left", hand_assignment, previous_notes,
                         max_fingers, allowed_spread)
         cl == calculate_cost(current_note, "left", hand_assignment, previous_notes,
                              max_fingers, allowed_spread)
         rl == Relax(dp[di - 1], cl)
         ha1 == StoreHand(hand_assignment, di, "left", rl)
         tr == CostTerms(current_note, "right", ha1, previous_notes,
                         max_fingers, allowed_spread)
         cr == calculate_cost(current_note, "right", ha1, previous_notes,
                              max_fingers, allowed_spread)
         rr == Relax(dp[di - 1], cr)
     IN /\ dp' = SetKey(dp, di, [left |-> rl[1], right |-> rr[1]])
        /\ hand_assignment' = StoreHand(ha1, di, "right", rr)
        /\ dp_active' = [left |-> tl.assigned_hand_notes, right |-> tr.assigned_hand_notes]
        /\ dp_terms' = [left |-> tl, right |-> tr]
        /\ cost_to_assign_hand' = [left |-> cl, right |-> cr]
  /\ di' = di + 1
  /\ UNCHANGED <<paramVars, greedyVars, pc, notes, bi, final_hand, final_cost,
                 final_hand_assignments, left_hand_notes, right_hand_notes>>

\* lines 143-150
DPPickFinal ==
  /\ pc = "dp_forward"
  /\ di = Len(notes)
  /\ LET n_notes == Len(notes)
         fh == IF Le(dp[n_notes - 1]["left"], dp[n_notes - 1]["right"]) THEN "left" ELSE "right"
     IN /\ final_hand' = fh
        /\ final_cost' = MinC(dp[n_notes - 1]["left"], dp[n_notes - 1]["right"])
        /\ final_hand_assignments' = SetKey(EmptyMap, n_notes - 1, fh)
        /\ bi' = n_notes - 2
  /\ pc' = "dp_backtrack"
  /\ UNCHANGED <<paramVars, greedyVars, notes, dp, hand_assignment, di, dp_active, dp_terms,
                 cost_to_assign_hand,
                 left_hand_notes, right_hand_notes>>

\* lines 152-154: one pass of the loop
DPBacktrack ==
  /\ pc = "dp_backtrack"
  /\ bi >= 0
  /\ final_hand' = hand_assignment[<<bi + 1, final_hand>>]
  /\ final_hand_assignments' = SetKey(final_hand_assignments, bi, hand_assignment[<<bi + 1, final_hand>>])
  /\ bi' = bi - 1
  /\ UNCHANGED <<paramVars, greedyVars, pc, notes, dp, hand_assignment, di, dp_active, dp_terms,
                 cost_to_assign_hand,
                 final_cost, left_hand_notes, right_hand_notes>>

\* the notes of ns at the 0-based indices I, in list order
RECURSIVE PickIndices(_, _)
PickIndices(ns, I) ==
  IF ns = <<>> THEN <<>>
  ELSE LET rest == PickIndices(SubSeq(ns, 1, Len(ns) - 1), I)
       IN IF (Len(ns) - 1) \in I THEN Append(rest, ns[Len(ns)]) ELSE rest

\* the loop running over range(n_notes - 1)
NotesOfHandSkipLast(ns, fha, hand) ==
  PickIndices(ns, { i \in 0..(Len(ns) - 2) : (fha[i] = "left") = (hand = "left") })

\* lines 158-163: the loop over range(n_notes), for one of the two lists
NotesOfHand(ns, fha, hand) ==
  PickIndices(ns, { i \in 0..(Len(ns) - 1) : (fha[i] = "left") = (hand = "left") })

\* lines 156-165
DPAssemble ==
  /\ pc = "dp_backtrack"
  /\ bi < 0
  /\ left_hand_notes' = NotesOfHand(notes, final_hand_assignments, "left")
  /\ right_hand_notes' = NotesOfHand(notes, final_hand_assignments, "right")
  /\ pc' = "done"
  /\ UNCHANGED <<paramVars, greedyVars, notes, dp, hand_assignment, di, dp_active, dp_terms,
                 cost_to_assign_hand,
                 bi, final_hand, final_cost, final_hand_assignments>>

\* ---- specifications -----------------------------------------------------
InitLocals ==
  /\ pc = "greedy_extract"
  /\ notes = <<>>
  /\ gi = 0
  /\ left_hand = <<>>
  /\ right_hand = <<>>
  /\ active_notes = [left |-> <<>>, right |-> <<>>]
  /\ pruned = [left |-> <<>>, right |-> <<>>]
  /\ costs = [left |-> 0, right |-> 0]
  /\ greedy_total = 0
  /\ dp = EmptyMap
  /\ hand_assignment = EmptyMap
  /\ di = 0
  /\ dp_active = [left |-> <<>>, right |-> <<>>]
  /\ dp_terms = EmptyMap
  /\ cost_to_assign_hand = [left |-> 0, right |-> 0]
  /\ bi = 0
  /\ final_hand = NoHand
  /\ final_cost = 0
  /\ final_hand_assignments = EmptyMap
  /\ left_hand_notes = <<>>
  /\ right_hand_notes = <<>>

Init ==
  /\ midi_data \in SeqsUpTo(NoteDomain, MaxNotes)
  /\ max_fingers \in MaxFingersSet
  /\ allowed_spread \in AllowedSpreadSet
  /\ InitLocals

InitRaw ==
  /\ midi_data \in SeqsUpTo(RawNoteDomain, MaxNotes)
  /\ max_fingers = 5
  /\ allowed_spread = 8
  /\ InitLocals

InitHeld ==
  /\ midi_data \in SeqsUpTo(HeldNoteDomain, MaxHeldNotes)
  /\ max_fingers \in MaxFingersSet
  /\ allowed_spread \in AllowedSpreadSet
  /\ InitLocals

Next ==
  \/ GreedyExtract
  \/ GreedyStep
  \/ GreedyReturn
  \/ DPExtract
  \/ DPForward
  \/ DPPickFinal
  \/ DPBacktrack
  \/ DPAssemble

Spec == Init /\ [][Next]_vars

SpecRaw == InitRaw /\ [][Next]_vars

SpecHeld == InitHeld /\ [][Next]_vars

\* ---- properties ----------------------------------------------------------
GreedyReturned == pc \notin {"greedy_extract", "greedy_loop"}

DPReturned == pc = "done"

DPCosted == pc \in {"dp_forward", "dp_backtrack", "done"} /\ di > 0

SeqToBag(s) == [x \in Range(s) |-> Cardinality({ k \in 1..Len(s) : s[k] = x })]

RECURSIVE IsSubSeq(_, _)
IsSubSeq(a, b) ==
  IF a = <<>> THEN TRUE
  ELSE IF b = <<>> THEN FALSE
  ELSE IF Head(a) = Head(b) THEN IsSubSeq(Tail(a), Tail(b))
  ELSE IsSubSeq(a, Tail(b))

OnsetsAscend(s) == \A k \in 1..(Len(s) - 1) : s[k][2] <= s[k + 1][2]

IsPartition(l, r, all) ==
  /\ Len(l) + Len(r) = Len(all)
  /\ SeqToBag(l) (+) SeqToBag(r) = SeqToBag(all)

\* C1: partition completeness.  Once an engine has returned, the lengths of its
\* two lists add up to the number of input notes, and the two lists together
\* hold exactly the input notes, each tuple as often as the input holds it and
\* unchanged.
C1_PartitionComplete ==
  /\ GreedyReturned => IsPartition(left_hand, right_hand, midi_data)
  /\ DPReturned => IsPartition(left_hand_notes, right_hand_notes, midi_data)

C1_Witness ==
  /\ DPReturned
  /\ Len(midi_data) >= 3
  /\ left_hand # <<>> /\ right_hand # <<>>
  /\ left_hand_notes # <<>> /\ right_hand_notes # <<>>

SameKey(a, b) == a[2] = b[2] /\ a[1] = b[1]

KeyAscends(s) ==
  \A k \in 1..(Len(s) - 1) :
    s[k][2] < s[k + 1][2] \/ (s[k][2] = s[k + 1][2] /\ s[k][1] <= s[k + 1][1])

StableOrderOf(sorted, given) ==
  /\ Len(sorted) = Len(given)
  /\ KeyAscends(sorted)
  /\ \A x \in Range(given) :
       SelectSeq(sorted, LAMBDA n : SameKey(n, x)) = SelectSeq(given, LAMBDA n : SameKey(n, x))

\* C6: processing and output order.  The list an engine works on is the input
\* in ascending (onset, pitch) order, notes of equal onset and pitch in their
\* input order; every output list is a subsequence of it with non-decreasing
\* onsets.
C6_ProcessingOrder ==
  /\ pc # "greedy_extract" => StableOrderOf(notes, midi_data)
  /\ pc \in {"greedy_loop", "dp_extract"} =>
       /\ IsSubSeq(left_hand, SubSeq(notes, 1, gi)) /\ OnsetsAscend(left_hand)
       /\ IsSubSeq(right_hand, SubSeq(notes, 1, gi)) /\ OnsetsAscend(right_hand)
  /\ DPReturned =>
       /\ IsSubSeq(left_hand_notes, notes) /\ OnsetsAscend(left_hand_notes)
       /\ IsSubSeq(right_hand_notes, notes) /\ OnsetsAscend(right_hand_notes)

C6_Witness ==
  /\ DPReturned
  /\ notes # midi_data
  /\ \E i, j \in 1..Len(midi_data) :
       i < j /\ SameKey(midi_data[i], midi_data[j]) /\ midi_data[i] # midi_data[j]
  /\ Len(left_hand) >= 2 \/ Len(right_hand) >= 2
  /\ Len(left_hand_notes) >= 2 \/ Len(right_hand_notes) >= 2

\* C7: empty input.  With no input notes both engines return two empty lists,
\* and the DP engine never builds its table, its predecessor map or its final
\* assignment, and never enters the forward or the backtracking loop.
C7_EmptyInput ==
  midi_data = <<>> =>
    /\ pc \notin {"dp_forward", "dp_backtrack"}
    /\ left_hand = <<>> /\ right_hand = <<>>
    /\ left_hand_notes = <<>> /\ right_hand_notes = <<>>
    /\ dp = EmptyMap /\ hand_assignment = EmptyMap /\ final_hand_assignments = EmptyMap
    /\ final_hand = NoHand

C7_Witness == midi_data = <<>> /\ pc = "done"

\* the cost formula as the specification words it, on the active pitches A
StatedSpan(A, pitch) ==
  IF A = <<>> THEN 0 ELSE MaxOf(Range(A) \cup {pitch}) - MinOf(Range(A) \cup {pitch})

StatedSpanCost(A, pitch, spread) ==
  IF StatedSpan(A, pitch) > spread
  THEN 10 * (StatedSpan(A, pitch) - spread) * (StatedSpan(A, pitch) - spread)
  ELSE 0

StatedFingerCost(A, pitch, mf) ==
  LET classes == { a % 12 : a \in Range(A) }
  IN IF Cardinality(classes) >= mf /\ (pitch % 12) \notin classes THEN 20 ELSE 0

StatedRegisterCost(hand, pitch) ==
  IF hand = "left" THEN (IF pitch >= 60 THEN 8 ELSE 0) ELSE (IF pitch < 60 THEN 8 ELSE 0)

StatedCost(A, pitch, hand, mf, spread) ==
  StatedSpanCost(A, pitch, spread) + StatedFingerCost(A, pitch, mf)
    + StatedRegisterCost(hand, pitch) + 2 * Len(A)

\* C4: cost model.  Whenever the DP engine has called calculate_cost for a note
\* and a hand, the value returned is non-negative and is the sum of the stated
\* span, finger, register and density terms on the active pitches the call
\* collected; with active pitches 60 and 72, allowed_spread 8 and a new pitch
\* 61 the new span is 12 and the span cost 16.
C4_CostModel ==
  DPCosted =>
    \A h \in HandNames :
      LET A == PitchesOf(dp_active[h])
          pitch == notes[di][1]
      IN /\ cost_to_assign_hand[h] >= 0
         /\ cost_to_assign_hand[h] = StatedCost(A, pitch, h, max_fingers, allowed_spread)
         /\ dp_terms[h].span_cost = StatedSpanCost(A, pitch, allowed_spread)
         /\ dp_terms[h].finger_cost = StatedFingerCost(A, pitch, max_fingers)
         /\ dp_terms[h].register_cost = StatedRegisterCost(h, pitch)
         /\ dp_terms[h].density_cost = 2 * Len(A)
         /\ (Range(A) = {60, 72} /\ allowed_spread = 8 /\ pitch = 61) =>
              (dp_terms[h].new_span = 12 /\ dp_terms[h].span_cost = 160)

C4_Witness ==
  /\ DPCosted
  /\ allowed_spread = 8
  /\ notes[di][1] = 61
  /\ Range(PitchesOf(dp_active["left"])) = {60, 72}
  /\ dp_terms["left"].span_cost = 160

\* the note the greedy loop processed last, and what each hand held before it
GreedyStepped == pc = "greedy_loop" /\ gi > 0

AssignedBefore(h) ==
  LET out == IF h = "left" THEN left_hand ELSE right_hand
  IN IF Len(active_notes[h]) > Len(pruned[h]) THEN SubSeq(out, 1, Len(out) - 1) ELSE out

\* C8: greedy active-set pruning.  After the greedy engine has processed a note
\* of onset t, the active set each hand had right after pruning is exactly the
\* list of the notes assigned to that hand before, restricted to offset > t.
C8_PrunedByOffset ==
  GreedyStepped =>
    \A h \in HandNames :
      pruned[h] = SelectSeq(AssignedBefore(h), LAMBDA n : n[3] > notes[gi][2])

\* C10: greedy per-hand cost.  The cost the greedy engine computes for a hand is
\* the stated four-term formula on that hand's own active set.
C10_OwnActiveSet ==
  GreedyStepped =>
    \A h \in HandNames :
      costs[h] = StatedCost(PitchesOf(pruned[h]), notes[gi][1], h, max_fingers, allowed_spread)

Sequential(s) == \A k \in 1..(Len(s) - 1) : s[k][3] <= s[k + 1][2]

HighAndNarrow(s, spread) ==
  /\ \A k \in 1..Len(s) : s[k][1] >= 60
  /\ \A j, k \in 1..Len(s) : s[j][1] - s[k][1] <= spread

\* C3: register pressure.  When the notes are sequential and non-overlapping,
\* all of pitch >= 60 and within allowed_spread of one another, the greedy
\* engine returns every note in the right hand and none in the left.
C3_AllRight ==
  (GreedyReturned /\ Sequential(notes) /\ HighAndNarrow(notes, allowed_spread)) =>
    (left_hand = <<>> /\ right_hand = notes)

StillSounding(s, t) == SelectSeq(s, LAMBDA n : n[3] > t)

\* C9: DP active-set membership.  The active sets calculate_cost collects for
\* note i hold only earlier notes whose offset > onset of note i, and no earlier
\* note is counted for both hands: together the two sets hold no more notes
\* than there are earlier notes still sounding.
C9_OwnHandOnly ==
  DPCosted =>
    LET earlier == StillSounding(SubSeq(notes, 1, di - 1), notes[di][2])
    IN /\ \A h \in HandNames : IsSubSeq(dp_active[h], earlier)
       /\ Len(dp_active["left"]) + Len(dp_active["right"]) <= Len(earlier)

\* C2: DP optimality.  The minimal cost the DP engine reports is at most the
\* cumulative cost of the greedy engine's assignment of the same notes.
C2_DPAtMostGreedy ==
  (DPReturned /\ notes # <<>>) => final_cost <= greedy_total

Malformed(n) == n[3] <= n[2] \/ n[1] < 0 \/ n[1] > 127

\* C5: malformed input.  When an input note has offset <= onset or a pitch
\* outside 0..127, no engine starts assigning and none returns a partition.
C5_RejectedAtIngestion ==
  (\E k \in 1..Len(midi_data) : Malformed(midi_data[k])) =>
    /\ pc \notin {"greedy_loop", "dp_forward", "dp_backtrack", "done"}
    /\ left_hand = <<>> /\ right_hand = <<>>
    /\ left_hand_notes = <<>> /\ right_hand_notes = <<>>

HasMalformed == \E k \in 1..Len(midi_data) : Malformed(midi_data[k])

\* C5, as the code has it: malformed input is not rejected.  With an input note
\* of offset <= onset or of a pitch outside 0..127, each engine still assigns
\* every note, and what it returns is a complete partition of the input.
C5_MalformedPartitioned ==
  HasMalformed =>
    /\ pc = "greedy_loop" => Len(left_hand) + Len(right_hand) = gi
    /\ GreedyReturned =>
         (gi = Len(midi_data) /\ IsPartition(left_hand, right_hand, midi_data))
    /\ DPReturned =>
         (di = Len(midi_data) /\ IsPartition(left_hand_notes, right_hand_notes, midi_data))

C5_Witness ==
  /\ DPReturned
  /\ \E k \in 1..Len(midi_data) : midi_data[k][3] <= midi_data[k][2]
  /\ \E k \in 1..Len(midi_data) : midi_data[k][1] > 127
  /\ Len(left_hand) + Len(right_hand) >= 2
  /\ Len(left_hand_notes) + Len(right_hand_notes) >= 2

\* the decision rule as stated, on costs in tenths
NearTie(cost_left, cost_right) ==
  ~(10 * cost_left < 9 * cost_right) /\ ~(10 * cost_right < 9 * cost_left)

StatedHand(cost_left, cost_right, n_left, n_right) ==
  CASE 10 * cost_left < 9 * cost_right -> "left"
    [] ~(10 * cost_left < 9 * cost_right) /\ 10 * cost_right < 9 * cost_left -> "right"
    [] NearTie(cost_left, cost_right) /\ n_right < n_left -> "right"
    [] NearTie(cost_left, cost_right) /\ n_left < n_right -> "left"
    [] NearTie(cost_left, cost_right) /\ n_left = n_right -> "left"

OtherHand(h) == IF h = "left" THEN "right" ELSE "left"

OutputOf(h, l, r) == IF h = "left" THEN l ELSE r

\* C11: greedy decision rule.  Every pass of the greedy loop appends the note to
\* the output and the active set of exactly the hand the stated rule names for
\* the two costs it computed (Left if cost_left < 0.9 * cost_right, else Right
\* if cost_right < 0.9 * cost_left, else the hand holding fewer notes, Left on
\* equal counts), and leaves the other hand's output as it was.
C11_DecisionRule ==
  [][ (pc = "greedy_loop" /\ gi' = gi + 1) =>
        LET note == notes[gi + 1]
            h == StatedHand(costs'["left"], costs'["right"], Len(left_hand), Len(right_hand))
            o == OtherHand(h)
        IN /\ OutputOf(h, left_hand', right_hand') = Append(OutputOf(h, left_hand, right_hand), note)
           /\ OutputOf(o, left_hand', right_hand') = OutputOf(o, left_hand, right_hand)
           /\ active_notes'[h] = Append(pruned'[h], note)
           /\ active_notes'[o] = pruned'[o] ]_vars

\* a near-tie decided by the counts: the note went to Right because Left held more
C11_Witness ==
  /\ GreedyStepped
  /\ NearTie(costs["left"], costs["right"])
  /\ Len(active_notes["right"]) > Len(pruned["right"])
  /\ Len(left_hand) > Len(right_hand) - 1

\* near-ties on equal counts (Left) and with Right holding more (Left)
C11_TieEqual ==
  /\ GreedyStepped
  /\ NearTie(costs["left"], costs["right"])
  /\ Len(active_notes["left"]) > Len(pruned["left"])
  /\ Len(left_hand) - 1 = Len(right_hand)

C11_TieRightMore ==
  /\ GreedyStepped
  /\ NearTie(costs["left"], costs["right"])
  /\ Len(active_notes["left"]) > Len(pruned["left"])
  /\ Len(left_hand) - 1 < Len(right_hand)

\* the cost of a labelling a (index -> hand) of the notes 0..k of ns: each note
\* costed, by the stated formula, against the earlier notes of its own hand
\* that still sound at its onset
OwnActive(a, ns, j) ==
  PitchesOf(PickIndices(SubSeq(ns, 1, j),
                        { m \in 0..(j - 1) : a[m] = a[j] /\ ns[m + 1][3] > ns[j + 1][2] }))

RECURSIVE LabellingCost(_, _, _, _, _)
LabellingCost(a, ns, k, mf, spread) ==
  IF k < 0 THEN 0
  ELSE LabellingCost(a, ns, k - 1, mf, spread)
         + StatedCost(OwnActive(a, ns, k), ns[k + 1][1], a[k], mf, spread)

MinLabellingCost(ns, i, hand, mf, spread) ==
  MinOf({ LabellingCost(a, ns, i, mf, spread) : a \in { b \in [0..i -> HandNames] : b[i] = hand } })

DPSwept == pc \in {"dp_backtrack", "done"}

\* the labelling the DP returns costs no more than any other labelling
ReturnedIsCheapest ==
  (DPReturned /\ notes # <<>>) =>
    \A h \in HandNames :
      LabellingCost(final_hand_assignments, notes, Len(notes) - 1, max_fingers, allowed_spread)
        <= MinLabellingCost(notes, Len(notes) - 1, h, max_fingers, allowed_spread)

\* C12: DP minimality and backtracking.  After the forward sweep dp[i][hand] is
\* the least cost of any labelling of the notes 0..i that gives note i to hand,
\* and the labelling the DP returns costs no more than any other labelling of
\* all the notes.
C12_TrueMinimum ==
  /\ DPSwept =>
       \A i \in 0..(Len(notes) - 1) : \A h \in HandNames :
         dp[i][h] = MinLabellingCost(notes, i, h, max_fingers, allowed_spread)
  /\ ReturnedIsCheapest


Overlap(a, b) == a[2] < b[3] /\ b[2] < a[3]

====
